---- MODULE Spec2Model ----
(***************************************************************************)
(* Large Average Submatrices (LAS), biclustlib/algorithms/las.py.          *)
(*                                                                         *)
(* Numbers.  The working matrix is a matrix of rationals with one common   *)
(* denominator: the entry (r, c) is data[r][c] / den.  Row and column      *)
(* indices are 0-based as in the source.  An average is a pair             *)
(* <<numerator, denominator>>.  A score is an integer number of            *)
(* thousandths (1.0 is 1000); norm.logcdf and log are fixed-point tables.  *)
(* Index arrays (Bicluster.rows, Bicluster.cols) are kept as index sets;   *)
(* a selection whose order among equal sums the libraries leave open       *)
(* (bn.argpartition, np.argsort) is a choice among every set it can give.  *)
(***************************************************************************)
EXTENDS Integers, Sequences, FiniteSets, TLC

(* ------------------------------ bounds -------------------------------- *)

\* num_biclusters is drawn from 0..MaxBiclusters
MaxBiclusters == 2

\* randomized_searches is drawn from 0..MaxSearches
MaxSearches == 2

\* the history counter iters stops counting at MaxIters
MaxIters == 3

\* a search input of a small shape has at most MaxNonzero non-zero entries
MaxNonzero == 2

\* a search input of a large shape has at most MaxNonzeroLarge non-zero entries
MaxNonzeroLarge == 1

(* --------------------------- integer helpers -------------------------- *)

Abs(x) == IF x < 0 THEN -x ELSE x

Sign(x) == IF x < 0 THEN -1 ELSE IF x > 0 THEN 1 ELSE 0

RECURSIVE Gcd(_, _)
Gcd(a, b) == IF b = 0 THEN Abs(a) ELSE Gcd(b, a % Abs(b))

RECURSIVE SqrtBetween(_, _, _)
SqrtBetween(x, lo, hi) ==
    IF hi - lo <= 1 THEN lo
    ELSE LET mid == (lo + hi) \div 2
         IN  IF mid * mid <= x THEN SqrtBetween(x, mid, hi) ELSE SqrtBetween(x, lo, mid)

\* floor of the square root of 0 <= x < 2^30
ISqrt(x) == SqrtBetween(x, 0, 32768)

RECURSIVE SumOver(_, _)
SumOver(f, S) ==
    IF S = {} THEN 0
    ELSE LET x == CHOOSE y \in S : TRUE IN f[x] + SumOver(f, S \ {x})

RECURSIVE GcdOver(_, _)
GcdOver(f, S) ==
    IF S = {} THEN 0
    ELSE LET x == CHOOSE y \in S : TRUE IN Gcd(f[x], GcdOver(f, S \ {x}))

(* ------------------------------ matrices ------------------------------ *)

RowIdx(d) == DOMAIN d

ColIdx(d) == DOMAIN d[0]

\* data.shape
NumRowsOf(d) == Cardinality(RowIdx(d))

NumColsOf(d) == Cardinality(ColIdx(d))

\* np.sum(data[:, cols], axis=1)
RowSums(d, cs) == [r \in RowIdx(d) |-> SumOver(d[r], cs)]

\* np.sum(data[rows, :], axis=0)
ColSums(d, rs) == [c \in ColIdx(d) |-> SumOver([r \in rs |-> d[r][c]], rs)]

\* the sum of data[np.ix_(rows, cols)]
BlockSum(d, rs, cs) == SumOver([r \in rs |-> SumOver(d[r], cs)], rs)

\* a faulty variant: the mean of the selected rows over every column
BlockMeanRows(d, dn, rs, cs) ==
    <<SumOver([r \in rs |-> SumOver(d[r], ColIdx(d))], rs),
      dn * Cardinality(rs) * NumColsOf(d)>>

\* np.mean(data[np.ix_(rows, cols)]) of the matrix d / dn
BlockMean(d, dn, rs, cs) ==
    <<BlockSum(d, rs, cs), dn * Cardinality(rs) * Cardinality(cs)>>

(* ------------------------------ selection ----------------------------- *)

\* the index sets of size j that hold j largest values of sums: what
\* order[:j] can be for an order that sorts sums descending, and what the
\* last j entries of a partition around position n - j can be
TopSets(sums, j) ==
    {S \in SUBSET DOMAIN sums :
        /\ Cardinality(S) = j
        /\ \A a \in S : \A b \in (DOMAIN sums) \ S : sums[a] >= sums[b]}

\* a faulty variant: the entries in front of the partition, the smallest ones
ArgPartitionHead(sums, kth) ==
    {S \in SUBSET DOMAIN sums :
        /\ Cardinality(S) = Cardinality(DOMAIN sums) - kth
        /\ \A a \in S : \A b \in (DOMAIN sums) \ S : sums[a] <= sums[b]}

\* bn.argpartition(sums, kth)[-(n - kth):] for n = len(sums)
ArgPartitionTail(sums, kth) == TopSets(sums, Cardinality(DOMAIN sums) - kth)

RECURSIVE SortDescOver(_, _)
SortDescOver(f, S) ==
    IF S = {} THEN <<>>
    ELSE LET x == CHOOSE y \in S : \A z \in S : f[y] >= f[z]
         IN  <<f[x]>> \o SortDescOver(f, S \ {x})

\* sums[order] for order = np.argsort(-sums)
SortDesc(sums) == SortDescOver(sums, DOMAIN sums)

RECURSIVE CumSumTo(_, _)
CumSumTo(seq, t) == IF t = 0 THEN 0 ELSE seq[t] + CumSumTo(seq, t - 1)

\* np.cumsum
CumSum(seq) == [t \in DOMAIN seq |-> CumSumTo(seq, t)]

\* a faulty variant: np.argmin, the 0-based position of the first minimum
ArgMin(seq) ==
    (CHOOSE t \in DOMAIN seq :
        /\ \A u \in DOMAIN seq : seq[u] >= seq[t]
        /\ \A u \in DOMAIN seq : u < t => seq[u] > seq[t]) - 1

\* np.argmax: the 0-based position of the first maximum
ArgMax(seq) ==
    (CHOOSE t \in DOMAIN seq :
        /\ \A u \in DOMAIN seq : seq[u] <= seq[t]
        /\ \A u \in DOMAIN seq : u < t => seq[u] < seq[t]) - 1

\* a faulty variant: order[:rmax]
PrefixLenShort(rmax) == rmax

\* the length of order[:rmax+1]
PrefixLen(rmax) == rmax + 1

(* ----------------------------- score engine --------------------------- *)

\* 1000 * log(x) for x = 1..10, rounded
LogTable == <<0, 693, 1099, 1386, 1609, 1792, 1946, 2079, 2197, 2303>>

\* np.log
Log(x) == LogTable[x]

\* 1000 * log(Phi(x)) at x = -10.0, -9.5, ..., 10.0, rounded
LogCdfTable ==
    <<-53231, -48306, -43628, -39197, -35013, -31076, -27384, -23938,
      -20737, -17779, -15065, -12592, -10360, -8366, -6608, -5082, -3783,
      -2706, -1841, -1176, -693, -369, -173, -69, -23, -6, -1, 0, 0, 0, 0,
      0, 0, 0, 0, 0, 0, 0, 0, 0, 0>>

\* norm.logcdf(x) in thousandths, for x in hundredths: linear between the
\* table's points, so non-decreasing in x
NormLogCdf(x) ==
    IF x >= 1000 THEN 0
    ELSE IF x < -1000
         THEN LogCdfTable[1] + ((LogCdfTable[2] - LogCdfTable[1]) * (x + 1000)) \div 50
    ELSE LET t == ((x + 1000) \div 50) + 1
             g == -1000 + 50 * (t - 1)
         IN  LogCdfTable[t] + ((LogCdfTable[t + 1] - LogCdfTable[t]) * (x - g)) \div 50

\* _cum_log_factorial(n): entry t + 1 is log(t!), t = 0..n
CumLogFactorial(n) ==
    [t \in 1..(n + 1) |-> CumSumTo([u \in 1..n |-> Log(u)], t - 1)]

\* _log_combs(n): entry t + 1 is log(n choose t), t = 0..n
LogCombs(n) ==
    LET log_facts == CumLogFactorial(n)
    IN  [t \in 1..(n + 1) |-> log_facts[n + 1] - (log_facts[t] + log_facts[n + 2 - t])]

\* _scores: cumsum holds numerators over dn; entry t is the score of the
\* first range_[t] rows (or columns) against k columns (or rows)
Scores(range_, k, cumsum, dn, m_log_combs, n_log_combs) ==
    [t \in DOMAIN range_ |->
        LET avgs == (10000 * cumsum[t]) \div (dn * range_[t] * k)
            log_probs == NormLogCdf(((-avgs) * ISqrt(10000 * range_[t] * k)) \div 10000)
        IN  (-log_probs) - m_log_combs[t] - n_log_combs[k]]

\* np.isclose(a, b) (rtol 1e-5, atol 1e-8) of two scores in thousandths
IsCloseScore(a, b) == Abs(a - b) <= (1 + Abs(b)) \div 100000

\* np.isclose(a, b) (rtol 1e-5, atol 1e-8) of two averages <<num, den>>
IsCloseAvg(a, b) ==
    IF a[2] = b[2]
    THEN Abs(a[1] - b[1]) <= (a[2] + 1000 * Abs(b[1])) \div 100000000
    ELSE Abs(a[1] * b[2] - b[1] * a[2])
            <= (a[2] * b[2] + 1000 * Abs(b[1]) * a[2]) \div 100000000

(* ---------------------------- preprocessing --------------------------- *)

\* sklearn.preprocessing.scale: each column minus its mean, over its standard
\* deviation (1 for a constant column); exact on the inputs used here
Scale(d) ==
    LET n == NumRowsOf(d)
        mean(c) == SumOver([r \in RowIdx(d) |-> d[r][c]], RowIdx(d)) \div n
        var(c) == SumOver([r \in RowIdx(d) |-> (d[r][c] - mean(c)) * (d[r][c] - mean(c))],
                          RowIdx(d)) \div n
        std(c) == IF ISqrt(var(c)) = 0 THEN 1 ELSE ISqrt(var(c))
    IN  [r \in RowIdx(d) |-> [c \in ColIdx(d) |-> (d[r][c] - mean(c)) \div std(c)]]

\* np.sign(data) * np.log(1 + np.abs(data)), in thousandths
Transform(d) ==
    [r \in RowIdx(d) |-> [c \in ColIdx(d) |-> Sign(d[r][c]) * Log(1 + Abs(d[r][c]))]]

(* -------------------------------- state ------------------------------- *)

VARIABLES
    num_biclusters,       \* self.num_biclusters
    score_threshold,      \* self.score_threshold, in thousandths
    randomized_searches,  \* self.randomized_searches
    transform,            \* self.transform
    data,                 \* the working matrix's numerators, data[r][c]
    den,                  \* the working matrix's common denominator
    pc,                   \* the position in run() / _find_bicluster()
    i,                    \* the slot of run()'s for loop
    s,                    \* the attempts of this slot that max() has consumed
    k, l,                 \* the sampled size of the constrained search
    rows, cols,           \* the current bicluster's rows and columns
    old_avg, avg,         \* _find_constrained_bicluster's loop variables
    old_score, score,     \* _improve_bicluster's loop variables
    b_avg,                \* _improve_bicluster's avg, <<num, den>>
    best,                 \* the running maximum of max(..., key=itemgetter(-1))
    biclusters,           \* run()'s list of accepted biclusters
    input,                \* history: the matrix run() was called with
    seen,                 \* history: the matrix the slot's first attempt read
    prev_cols,            \* history: cols at the start of the last iteration
    iters,                \* history: iterations of the current loop so far, to MaxIters
    draws,                \* history: calls of np.random.choice so far
    deflations            \* history: executions of the deflating statement

vars ==
    <<num_biclusters, score_threshold, randomized_searches, transform, data, den,
      pc, i, s, k, l, rows, cols, old_avg, avg, old_score, score, b_avg, best,
      biclusters, input, seen, prev_cols, iters, draws, deflations>>

config == <<num_biclusters, score_threshold, randomized_searches, transform>>

search_vars == <<k, l, rows, cols, old_avg, avg, prev_cols>>

improve_vars == <<old_score, score, b_avg>>

loop_vars == <<i, s, best, biclusters, seen, deflations>>

NoBest == [rows |-> {}, cols |-> {}, avg |-> <<0, 1>>, score |-> 0, found |-> FALSE]

(* ------------------------------- inputs ------------------------------- *)

\* the matrix whose columns are the tuples of ps (0-based indices)
MatrixOfColumns(ps) ==
    [r \in 0..(Len(ps[1]) - 1) |-> [c \in 0..(Len(ps) - 1) |-> ps[c + 1][r + 1]]]

\* the matrices run() is called with, column by column.  Every column
\* standardizes to whole numbers: it holds two values, each in half of its
\* rows (-1 and 1 once standardized), or one value (0 once standardized)
RunInputs ==
    {MatrixOfColumns(ps) : ps \in
        {<<<<3, 3, 1, 1>>, <<7, 7, 5, 5>>, <<4, 4, 0, 0>>>>,
         <<<<3, 3, 1, 1>>, <<7, 7, 5, 5>>, <<0, 4, 0, 4>>>>,
         <<<<3, 3, 1, 1>>, <<0, 4, 0, 4>>, <<4, 0, 0, 4>>>>,
         <<<<3, 3, 1, 1>>, <<0, 4, 0, 4>>, <<5, 5, 5, 5>>>>,
         <<<<1, 3, 3, 1>>, <<5, 5, 5, 5>>, <<2, 2, 2, 2>>>>,
         <<<<5, 5, 5, 5>>, <<2, 2, 2, 2>>, <<0, 0, 0, 0>>>>,
         <<<<1, 3>>, <<3, 1>>, <<2, 2>>>>}}

\* the thresholds run() is configured with: the default 1.0, the score of an
\* all-zero matrix, one below and one above every score
Thresholds == {-100000, 693, 1000, 100000}

\* the shapes <<num_rows, num_cols>> of the matrices a search is started on
SmallShapes == {<<1, 1>>, <<2, 3>>, <<3, 3>>}

LargeShapes == {<<5, 3>>}

SearchValues == {-1, 1, 2}

Cells(shape) == (0..(shape[1] - 1)) \X (0..(shape[2] - 1))

\* the matrices of a shape with at most nonzero non-zero entries
SparseMatrices(shape, nonzero) ==
    {[r \in 0..(shape[1] - 1) |-> [c \in 0..(shape[2] - 1) |->
            IF <<r, c>> \in DOMAIN f THEN f[<<r, c>>] ELSE 0]] :
        f \in UNION {[P -> SearchValues] :
                P \in {Q \in SUBSET Cells(shape) : Cardinality(Q) <= nonzero}}}

SearchInputs ==
    UNION ({SparseMatrices(shape, MaxNonzero) : shape \in SmallShapes}
            \cup {SparseMatrices(shape, MaxNonzeroLarge) : shape \in LargeShapes})

(* ------------------------------- run() -------------------------------- *)

InitCommon ==
    /\ den = 1
    /\ i = 0 /\ s = 0
    /\ k = 0 /\ l = 0 /\ rows = {} /\ cols = {} /\ prev_cols = {}
    /\ old_avg = <<-1, 1>> /\ avg = <<0, 1>>
    /\ old_score = -1000 /\ score = 0 /\ b_avg = <<0, 1>>
    /\ best = NoBest
    /\ biclusters = <<>>
    /\ input = data
    /\ seen = <<data, den>>
    /\ iters = 0 /\ draws = 0 /\ deflations = 0

\* LargeAverageSubmatrices(...).run(data) is called
Init ==
    /\ num_biclusters \in 0..MaxBiclusters
    /\ randomized_searches \in 0..MaxSearches
    /\ score_threshold \in Thresholds
    /\ transform \in BOOLEAN
    /\ data \in RunInputs
    /\ pc = "validate"
    /\ InitCommon

\* a faulty variant: randomized_searches is not validated
OnlyBiclustersValid == ~(num_biclusters <= 0)

\* _validate_parameters
ParametersValid == ~(num_biclusters <= 0 \/ randomized_searches <= 0)

Validate ==
    /\ pc = "validate"
    /\ pc' = IF ParametersValid THEN "scale" ELSE "invalid"
    /\ UNCHANGED <<config, data, den, search_vars, improve_vars, loop_vars,
                   input, iters, draws>>

\* data = scale(data)
Standardize ==
    /\ pc = "scale"
    /\ data' = Scale(data)
    /\ pc' = IF transform THEN "transform" ELSE "slot"
    /\ UNCHANGED <<config, den, search_vars, improve_vars, loop_vars,
                   input, iters, draws>>

\* data = np.sign(data) * np.log(1 + np.abs(data)); data = scale(data)
LogTransform ==
    /\ pc = "transform"
    /\ data' = Scale(Transform(data))
    /\ pc' = "slot"
    /\ UNCHANGED <<config, den, search_vars, improve_vars, loop_vars,
                   input, iters, draws>>

\* for i in range(self.num_biclusters): the next slot, or the return
NextSlot ==
    /\ pc = "slot"
    /\ IF i < num_biclusters
       THEN /\ pc' = "draw"
            /\ s' = 0
            /\ best' = NoBest
            /\ seen' = <<data, den>>
       ELSE /\ pc' = "done"
            /\ UNCHANGED <<s, best, seen>>
    /\ UNCHANGED <<config, data, den, search_vars, improve_vars, i, biclusters,
                   input, iters, draws, deflations>>

(* -------------------------- _find_bicluster --------------------------- *)

\* np.arange(lo, hi)
Arange(lo, hi) == lo..(hi - 1)

\* int(np.ceil(n / 2))
CeilHalf(n) == (n + 1) \div 2

\* the array k is drawn from
KChoices(d) == Arange(1, CeilHalf(NumRowsOf(d)))

\* the array l is drawn from
LChoices(d) == Arange(1, CeilHalf(NumColsOf(d)))

\* the three np.random.choice calls and the loop variables' first values
Draw ==
    /\ pc = "draw"
    /\ KChoices(data) # {}
    /\ LChoices(data) # {}
    /\ k' \in KChoices(data)
    /\ l' \in LChoices(data)
    /\ cols' \in {S \in SUBSET ColIdx(data) : Cardinality(S) = l'}
    /\ prev_cols' = cols'
    /\ rows' = {}
    /\ old_avg' = <<-1, 1>>
    /\ avg' = <<0, 1>>
    /\ iters' = 0
    /\ draws' = draws + 3
    /\ pc' = "search"
    /\ UNCHANGED <<config, data, den, improve_vars, loop_vars, input>>

\* np.random.choice of an empty array raises ValueError
DrawFail ==
    /\ pc = "draw"
    /\ KChoices(data) = {} \/ LChoices(data) = {}
    /\ draws' = draws + (IF KChoices(data) = {} THEN 1 ELSE 2)
    /\ pc' = "draw_error"
    /\ UNCHANGED <<config, data, den, search_vars, improve_vars, loop_vars,
                   input, iters>>

\* one pass of the while loop of _find_constrained_bicluster
ConstrainedIterate ==
    /\ pc = "search"
    /\ ~IsCloseAvg(old_avg, avg)
    /\ old_avg' = avg
    /\ prev_cols' = cols
    /\ rows' \in ArgPartitionTail(RowSums(data, cols), NumRowsOf(data) - k)
    /\ cols' \in ArgPartitionTail(ColSums(data, rows'), NumColsOf(data) - l)
    /\ avg' = BlockMean(data, den, rows', cols')
    /\ iters' = IF iters < MaxIters THEN iters + 1 ELSE iters
    /\ UNCHANGED <<config, data, den, pc, k, l, improve_vars, loop_vars,
                   input, draws>>

\* return Bicluster(rows, cols), and _improve_bicluster's first values
ConstrainedReturn ==
    /\ pc = "search"
    /\ IsCloseAvg(old_avg, avg)
    /\ old_score' = -1000
    /\ score' = 0
    /\ iters' = 0
    /\ pc' = "improve"
    /\ UNCHANGED <<config, data, den, search_vars, b_avg, loop_vars, input, draws>>

\* row_log_combs: _log_combs(num_rows)[1:]
RowLogCombs(d) == Tail(LogCombs(NumRowsOf(d)))

\* col_log_combs: _log_combs(num_cols)[1:]
ColLogCombs(d) == Tail(LogCombs(NumColsOf(d)))

\* row_range: np.arange(1, num_rows + 1)
RowRange(d) == [t \in 1..NumRowsOf(d) |-> t]

\* col_range: np.arange(1, num_cols + 1)
ColRange(d) == [t \in 1..NumColsOf(d) |-> t]

\* row_scores for the current columns
RowScores(d, dn, cs) ==
    Scores(RowRange(d), Cardinality(cs), CumSum(SortDesc(RowSums(d, cs))), dn,
           RowLogCombs(d), ColLogCombs(d))

\* col_scores for the current rows
ColScores(d, dn, rs) ==
    Scores(ColRange(d), Cardinality(rs), CumSum(SortDesc(ColSums(d, rs))), dn,
           ColLogCombs(d), RowLogCombs(d))

\* a faulty variant: the sum over the number of rows alone
AvgPerRow(col_cumsum, cmax, dn, rs, cs) ==
    <<col_cumsum[cmax + 1], dn * Cardinality(rs)>>

\* avg = col_cumsum[cmax] / b.area, with b.area = len(b.rows) * len(b.cols)
AvgAt(col_cumsum, cmax, dn, rs, cs) ==
    <<col_cumsum[cmax + 1], dn * Cardinality(rs) * Cardinality(cs)>>

\* the while test of _improve_bicluster and the row pass of its body
RowPass ==
    /\ pc = "improve"
    /\ ~IsCloseScore(old_score, score)
    /\ old_score' = score
    /\ LET row_sums == RowSums(data, cols)
           rmax == ArgMax(RowScores(data, den, cols))
       IN  rows' \in TopSets(row_sums, PrefixLen(rmax))
    /\ pc' = "improve_cols"
    /\ UNCHANGED <<config, data, den, k, l, cols, old_avg, avg, prev_cols,
                   score, b_avg, loop_vars, input, iters, draws>>

\* the column pass, and the average and the score at cmax
ColPass ==
    /\ pc = "improve_cols"
    /\ LET col_sums == ColSums(data, rows)
           col_cumsum == CumSum(SortDesc(col_sums))
           col_scores == ColScores(data, den, rows)
           cmax == ArgMax(col_scores)
       IN  /\ cols' \in TopSets(col_sums, PrefixLen(cmax))
           /\ b_avg' = AvgAt(col_cumsum, cmax, den, rows, cols')
           /\ score' = col_scores[cmax + 1]
    /\ iters' = IF iters < MaxIters THEN iters + 1 ELSE iters
    /\ pc' = "improve"
    /\ UNCHANGED <<config, data, den, k, l, rows, old_avg, avg, prev_cols,
                   old_score, loop_vars, input, draws>>

\* return b, avg, score
ImproveReturn ==
    /\ pc = "improve"
    /\ IsCloseScore(old_score, score)
    /\ pc' = "candidate"
    /\ UNCHANGED <<config, data, den, search_vars, improve_vars, loop_vars,
                   input, iters, draws>>

(* ------------------------- the extraction loop ------------------------ *)

\* a faulty variant: one attempt fewer
AttemptsLeftShort(consumed, total) == consumed + 1 < total

\* for i in range(self.randomized_searches): another attempt follows
AttemptsLeft(consumed, total) == consumed < total

\* a faulty variant: a score equal to the threshold stops the loop
AtOrBelowThreshold(sc, threshold) == sc <= threshold

\* score < self.score_threshold
BelowThreshold(sc, threshold) == sc < threshold

\* max(...) takes the next candidate: a later one wins only with a greater score
KeepBest ==
    /\ pc = "candidate"
    /\ best' = IF ~best.found \/ score > best.score
               THEN [rows |-> rows, cols |-> cols, avg |-> b_avg, score |-> score,
                     found |-> TRUE]
               ELSE best
    /\ s' = s + 1
    /\ pc' = IF AttemptsLeft(s + 1, randomized_searches) THEN "draw" ELSE "evaluate"
    /\ UNCHANGED <<config, data, den, search_vars, improve_vars, i, biclusters,
                   seen, input, iters, draws, deflations>>

\* if score < self.score_threshold: break
Stop ==
    /\ pc = "evaluate"
    /\ BelowThreshold(best.score, score_threshold)
    /\ pc' = "done"
    /\ UNCHANGED <<config, data, den, search_vars, improve_vars, loop_vars,
                   input, iters, draws>>

\* a faulty variant: the average subtracted from the whole rows rs
DeflateRows(d, dn, rs, cs, a) ==
    LET raw == [r \in RowIdx(d) |-> [c \in ColIdx(d) |->
                    d[r][c] * a[2] - (IF r \in rs THEN a[1] * dn ELSE 0)]]
        g == Gcd(dn * a[2],
                 GcdOver([r \in RowIdx(d) |-> GcdOver(raw[r], ColIdx(d))], RowIdx(d)))
    IN  <<[r \in RowIdx(d) |-> [c \in ColIdx(d) |-> raw[r][c] \div g]],
          (dn * a[2]) \div g>>

\* the matrix d / dn with a = <<num, den>> subtracted on rs x cs, as
\* <<numerators, denominator>> in lowest terms
Deflate(d, dn, rs, cs, a) ==
    LET raw == [r \in RowIdx(d) |-> [c \in ColIdx(d) |->
                    d[r][c] * a[2] - (IF r \in rs /\ c \in cs THEN a[1] * dn ELSE 0)]]
        g == Gcd(dn * a[2],
                 GcdOver([r \in RowIdx(d) |-> GcdOver(raw[r], ColIdx(d))], RowIdx(d)))
    IN  <<[r \in RowIdx(d) |-> [c \in ColIdx(d) |-> raw[r][c] \div g]],
          (dn * a[2]) \div g>>

\* data[np.ix_(best.rows, best.cols)] -= avg; biclusters.append(best)
Accept ==
    /\ pc = "evaluate"
    /\ ~BelowThreshold(best.score, score_threshold)
    /\ data' = Deflate(data, den, best.rows, best.cols, best.avg)[1]
    /\ den' = Deflate(data, den, best.rows, best.cols, best.avg)[2]
    /\ deflations' = deflations + 1
    /\ biclusters' = Append(biclusters, [rows |-> best.rows, cols |-> best.cols])
    /\ i' = i + 1
    /\ pc' = "slot"
    /\ UNCHANGED <<config, search_vars, improve_vars, s, best, seen, input,
                   iters, draws>>

\* _find_constrained_bicluster
ConstrainedSearch ==
    \/ Draw
    \/ DrawFail
    \/ ConstrainedIterate
    \/ ConstrainedReturn

\* _improve_bicluster
ImproveBicluster ==
    \/ RowPass
    \/ ColPass
    \/ ImproveReturn

FindBicluster ==
    \/ ConstrainedSearch
    \/ ImproveBicluster

Next ==
    \/ Validate
    \/ Standardize
    \/ LogTransform
    \/ NextSlot
    \/ FindBicluster
    \/ KeepBest
    \/ Stop
    \/ Accept

Spec == Init /\ [][Next]_vars

(* ------------------- _find_bicluster on any matrix -------------------- *)

\* _find_bicluster(data) is called on a matrix
InitFind ==
    /\ num_biclusters = 1
    /\ randomized_searches = 1
    /\ score_threshold = 1000
    /\ transform = FALSE
    /\ data \in SearchInputs
    /\ pc = "draw"
    /\ InitCommon

NextFind == FindBicluster

SpecFind == InitFind /\ [][NextFind]_vars

\* _find_constrained_bicluster(data) alone, up to its return
NextSearch == ConstrainedSearch

SpecSearch == InitFind /\ [][NextSearch]_vars

\* the interpreter runs the loop of the constrained search to its end
FairSpecSearch == SpecSearch /\ WF_vars(ConstrainedIterate \/ ConstrainedReturn)

(* ------------------------------- claims ------------------------------- *)

\* the positions of a search attempt of run(), and of the comparison after it
AttemptPcs == {"draw", "search", "improve", "improve_cols", "candidate", "evaluate"}

\* S holds j entries of sums none of which is below an entry outside S
IsLargest(S, sums, j) ==
    /\ S \subseteq DOMAIN sums
    /\ Cardinality(S) = j
    /\ \A a \in S : \A b \in (DOMAIN sums) \ S : sums[a] >= sums[b]

\* C1: with num_biclusters <= 0 or randomized_searches <= 0, run() goes from
\* its first statement to the invalid-configuration error and nowhere else:
\* the matrix is the caller's, nothing was drawn, no attempt was made and no
\* result exists; with both parameters > 0 the error is never raised.
C1_InvalidConfiguration ==
    /\ (num_biclusters <= 0 \/ randomized_searches <= 0) =>
            /\ pc \in {"validate", "invalid"}
            /\ data = input /\ den = 1
            /\ draws = 0 /\ iters = 0 /\ s = 0 /\ i = 0
            /\ ~best.found /\ biclusters = <<>> /\ deflations = 0
    /\ (num_biclusters > 0 /\ randomized_searches > 0) => pc # "invalid"

\* C1 witness: the error was raised for randomized_searches = 0 alone
C1_Witness == pc = "invalid" /\ randomized_searches = 0 /\ num_biclusters > 0

\* C2: the slots before slot i were all accepted, in order, and never more
\* than num_biclusters; run() returns either after num_biclusters accepted
\* slots or at the first slot whose best score is below the threshold, with
\* that candidate not appended and the matrix as that slot's attempts saw it;
\* a best score >= the threshold (equality included) is never a stop.
C2_ExtractionLoop ==
    /\ Len(biclusters) = i
    /\ i <= num_biclusters
    /\ (pc = "slot" /\ i > 0) =>
            /\ best.score >= score_threshold
            /\ biclusters[i] = [rows |-> best.rows, cols |-> best.cols]
    /\ (pc = "done" /\ best.found /\ best.score < score_threshold) =>
            /\ i < num_biclusters
            /\ <<data, den>> = seen
            /\ deflations = i
    /\ (pc = "done" /\ best.found /\ best.score >= score_threshold) =>
            i = num_biclusters
    /\ (pc = "done" /\ i < num_biclusters) =>
            best.found /\ best.score < score_threshold

\* C2 witness: the second slot stopped the loop, the first was accepted
C2_Witness ==
    /\ pc = "done"
    /\ num_biclusters = 2
    /\ Len(biclusters) = 1
    /\ best.score < score_threshold

\* C2 witness of equality: a best score equal to the threshold was accepted
C2_WitnessEqual ==
    pc = "slot" /\ i > 0 /\ best.score = score_threshold

\* C3: the deflating statement ran once per accepted bicluster; during the
\* attempts of a slot and the comparison after them the matrix is the one the
\* slot's first attempt read; a deflation comes after all randomized_searches
\* attempts of its slot, and the attempts of slot i find i deflations done.
C3_DeflationBetweenSlots ==
    /\ deflations = Len(biclusters)
    /\ pc \in AttemptPcs =>
            /\ <<data, den>> = seen
            /\ deflations = i
            /\ s <= randomized_searches
    /\ pc \in AttemptPcs \ {"evaluate"} => s < randomized_searches
    /\ pc = "evaluate" => s = randomized_searches
    /\ (pc = "slot" /\ i > 0) => s = randomized_searches

\* C3 witness: the second attempt of the second slot runs on a matrix that
\* the first slot's deflation changed
C3_Witness ==
    /\ pc = "search"
    /\ i = 1 /\ s = 1
    /\ data # Scale(input)

\* C4: the accepting step subtracts the candidate's average a from the
\* entries of its rows x columns and from no other entry (new / den' =
\* old / den - a, or old / den), and no step changes the matrix's shape.
C4_DeflationFrame ==
    [][/\ DOMAIN data' = DOMAIN data
       /\ \A r \in DOMAIN data : DOMAIN data'[r] = DOMAIN data[r]
       /\ deflations' # deflations =>
            \A r \in RowIdx(data) : \A c \in ColIdx(data) :
                data'[r][c] * den * best.avg[2] =
                    den' * (data[r][c] * best.avg[2]
                            - (IF r \in best.rows /\ c \in best.cols
                               THEN best.avg[1] * den ELSE 0))]_vars

\* C4 witness: a deflation by a non-zero average of fewer than all entries
C4_Witness ==
    /\ pc = "slot"
    /\ deflations = 1
    /\ best.avg[1] # 0
    /\ best.rows # RowIdx(data)
    /\ data # Scale(input)

\* C5: after the row pass the rows, and after the column pass the rows and
\* the columns, are non-empty sets of indices of the matrix; so are those of
\* every bicluster of run()'s result.
C5_NonEmptyInRange ==
    /\ pc = "improve_cols" =>
            rows # {} /\ rows \subseteq 0..(NumRowsOf(data) - 1)
    /\ ((pc = "improve" /\ iters >= 1) \/ pc = "candidate") =>
            /\ rows # {} /\ rows \subseteq 0..(NumRowsOf(data) - 1)
            /\ cols # {} /\ cols \subseteq 0..(NumColsOf(data) - 1)
    /\ \A t \in DOMAIN biclusters :
            /\ biclusters[t].rows # {}
            /\ biclusters[t].rows \subseteq 0..(NumRowsOf(data) - 1)
            /\ biclusters[t].cols # {}
            /\ biclusters[t].cols \subseteq 0..(NumColsOf(data) - 1)

\* C5 witness: the result holds a bicluster of one row, and one of all rows
C5_Witness ==
    /\ pc = "done"
    /\ \E t \in DOMAIN biclusters : Cardinality(biclusters[t].rows) = 1
    /\ \E t \in DOMAIN biclusters :
            Cardinality(biclusters[t].rows) = NumRowsOf(data)

\* C6: the average the refinement reports is the mean of the matrix over its
\* rows x columns, and once a bicluster is accepted and the matrix deflated
\* the matrix's sum (so its mean) over that bicluster is 0.
C6_DeflatedMeanZero ==
    /\ ((pc = "improve" /\ iters >= 1) \/ pc = "candidate") =>
            /\ b_avg[1] = BlockSum(data, rows, cols)
            /\ b_avg[2] = den * Cardinality(rows) * Cardinality(cols)
    /\ (pc = "slot" /\ i > 0) =>
            BlockSum(data, biclusters[i].rows, biclusters[i].cols) = 0

\* C6 witness: a non-zero average was subtracted
C6_Witness ==
    /\ pc = "slot"
    /\ i > 0
    /\ best.avg[1] # 0
    /\ BlockSum(seen[1], best.rows, best.cols) # 0

\* _find_constrained_bicluster has just returned
ConstrainedReturned == pc = "improve" /\ iters = 0 /\ old_score = -1000

\* C7: k is drawn from 1..ceil(num_rows / 2) and l from
\* 1..ceil(num_cols / 2), upper bounds included, and the draw succeeds on
\* every matrix with at least one row and one column.
C7_DrawRanges ==
    /\ pc = "draw" =>
            /\ KChoices(data) = 1..((NumRowsOf(data) + 1) \div 2)
            /\ LChoices(data) = 1..((NumColsOf(data) + 1) \div 2)
    /\ pc # "draw_error"

\* C8 as stated: the bicluster the constrained search returns has k rows and
\* l columns, its rows are k rows with the largest sums over its columns, and
\* its columns are l columns with the largest sums over its rows.
C8_FixedPoint ==
    ConstrainedReturned =>
        /\ Cardinality(rows) = k
        /\ Cardinality(cols) = l
        /\ IsLargest(rows, RowSums(data, cols), k)
        /\ IsLargest(cols, ColSums(data, rows), l)

\* C8 as amended: the bicluster the constrained search returns has k rows and
\* l columns, its columns are l columns with the largest sums over its rows,
\* and its rows are k rows with the largest sums over the columns the last
\* iteration started from; it is a fixed point when those are its columns.
C8_LastSelection ==
    ConstrainedReturned =>
        /\ Cardinality(rows) = k
        /\ Cardinality(cols) = l
        /\ IsLargest(cols, ColSums(data, rows), l)
        /\ IsLargest(rows, RowSums(data, prev_cols), k)
        /\ prev_cols = cols => IsLargest(rows, RowSums(data, cols), k)

\* C8 witness: a 2 x 1 bicluster was returned whose columns changed in the
\* last iteration and whose rows are not the largest over its columns
C8_Witness ==
    /\ ConstrainedReturned
    /\ k = 2
    /\ prev_cols # cols
    /\ ~IsLargest(rows, RowSums(data, cols), k)

C10_ScoreMonotone ==
    [][(pc = "improve_cols" /\ iters >= 1) => score' >= score]_vars

\* C10 witness: the second iteration ended with a greater score than the first
C10_Witness == pc = "improve" /\ iters = 2 /\ score > old_score

====
